---- MODULE Spec2Model ----
(***************************************************************************)
(* Model of the BK Precision 1697B driver (BK1697B.py) and of the parts of *)
(* its GUI (BK1697B_GUI.py) that call the driver.                          *)
(*                                                                         *)
(* Bytes are integers 0..255, byte strings and Python lists are sequences. *)
(* Python indices are 0-based: Python lst[i] is lst[i + 1] here.           *)
(***************************************************************************)
EXTENDS Integers, Sequences, FiniteSets, TLC

VARIABLES
    response,   \* the bytes handed to fix_BKResponse_list / parse_value
    called,     \* which pure function has been applied: "none", "fix", "parse"
    res_list,   \* the list fix_BKResponse_list returned
    parsed,     \* what parse_value did: [bytes, text, logged, value]
    ser,        \* self.ser of the latest driver object: "none" (None),
                \* "open" or "closed" (a Serial, by its is_open)
    closes,     \* how often Serial.close() ran on the latest Serial
    inbuf,      \* the input buffer of the link: the lines received, unread
    outp,       \* the device's output switch in wire encoding: 0 on, 1 off
    device,     \* the driver object its user holds: "None" or "latest"
    pc,         \* each thread's position
    cur,        \* the driver method each thread is in
    obj,        \* the driver object that method was called on: "latest",
                \* "older" (one made before the latest), "none"
    ev,         \* the link events of each thread's current driver call
    resp,       \* the line readline() returned to each thread's current call
    ret,        \* what each thread's latest driver call returned or raised
    monitoring, \* the GUI's self.monitoring
    cb,         \* the GUI callback the main thread is running, or "none"
    quit,       \* the GUI has been shut down
    last,       \* the output call that returned last to the script: "none",
                \* "turnon_output" or "turnoff_output"
    times,      \* the GUI's self.times
    volts,      \* the GUI's self.volts
    currs,      \* the GUI's self.currs
    data_lock,  \* the thread that holds self.data_lock, or "free"
    now,        \* what datetime.now() gives, in units of TimeUnit minutes
    sample,     \* the locals v, c, ts of each monitor thread's iteration
    snapshot,   \* the locals t, v, c of update_plot
    rows        \* the samples in the buffers, each put in whole when its
                \* time is appended and taken out when its time is popped

pureVars == <<response, called, res_list, parsed>>
linkVars == <<ser, closes, inbuf, outp>>
callVars == <<pc, cur, obj, ev, resp, ret>>
guiVars == <<monitoring, cb, quit>>
plotVars == <<times, volts, currs, data_lock, now, sample, snapshot, rows>>

vars == <<response, called, res_list, parsed,
          ser, closes, inbuf, outp, device, pc, cur, obj, ev, resp, ret,
          monitoring, cb, quit, last,
          times, volts, currs, data_lock, now, sample, snapshot, rows>>

-----------------------------------------------------------------------------
(* Bounds of the model *)

\* longest response line of the digit/decimal-point alphabet
MaxLen == 8
\* longest response line of the full text alphabet
MaxTextLen == 4
\* the last time of datetime.now() followed, in ticks
MaxClock == 2
\* the minutes between two ticks of datetime.now()
TickMinutes == 30
\* the most samples the buffers are followed with
MaxSamples == 2

(* Program constants *)

\* the decimal point, BK1697B.py line 13
DecimalPoint == 46
\* ASCII '1', the byte that triggers the correction in parse_value, line 28
TriggerByte == 49
\* number of trailing elements that marks a malformed response, line 16
BadTail == 6

\* bytes of the responses fix_BKResponse_list is explored on: '.', '1', '5'
FixBytes == {46, 49, 53}
\* bytes of the responses parse_value is explored on:
\* newline, '-', '.', '1', '5', 'V' and 255, which no UTF-8 text contains
ParseBytes == {10, 45, 46, 49, 53, 86, 255}

SeqsUpTo(S, n) == UNION {[1..k -> S] : k \in 0..n}

FixInputs == SeqsUpTo(FixBytes, MaxLen)
ParseInputs == FixInputs \cup SeqsUpTo(ParseBytes, MaxTextLen)

-----------------------------------------------------------------------------
(* fix_BKResponse_list, BK1697B.py lines 6-23 *)

\* a mutant of Pop: removes the element at index k - 1, the decimal point itself
PopBefore(lst, k) == SubSeq(lst, 1, k - 1) \o SubSeq(lst, k + 1, Len(lst))

\* lst.pop(k) with a 0-based k: the list without its element of index k
Pop(lst, k) == SubSeq(lst, 1, k) \o SubSeq(lst, k + 2, Len(lst))

\* a mutant of After: counts the element at index i as well
AfterInclusive(lst, i) == Len(lst) - i

\* after = len(lst) - (i + 1): the number of elements that follow index i
After(lst, i) == Len(lst) - (i + 1)

\* a mutant of IsPoint: keys off byte 49, as the docstring words it
IsTrigger(b) == b = TriggerByte

\* lst[i] == 46
IsPoint(b) == b = DecimalPoint

RECURSIVE FixScan(_, _)
\* the while loop from index i on: the first decimal point with exactly 6
\* elements after it loses its successor, and the scan stops
FixScan(lst, i) ==
    IF i >= Len(lst) THEN lst
    ELSE IF IsPoint(lst[i + 1]) /\ After(lst, i) = BadTail
         THEN Pop(lst, i + 1)
         ELSE FixScan(lst, i + 1)

fix_BKResponse_list(lst) == FixScan(lst, 0)

-----------------------------------------------------------------------------
(* parse_value, BK1697B.py lines 25-40 *)

Digits == 48..57
Signs == {43, 45}
\* the ASCII characters str.strip() removes
Whitespace == {9, 10, 11, 12, 13, 28, 29, 30, 31, 32}
\* float(...) of a failed extraction, line 40: -1.0 as <<numerator, decimals>>
Sentinel == <<-1, 0>>

\* bytes.decode() is strict UTF-8.  Every byte below 128 is one character; a
\* byte 248..255 occurs in no UTF-8 text.  The bytes 128..247 are outside
\* the alphabets explored here.
Decodable(bs) == \A k \in 1..Len(bs) : bs[k] < 128

RECURSIVE LStrip(_)
LStrip(t) == IF t # <<>> /\ Head(t) \in Whitespace THEN LStrip(Tail(t)) ELSE t

RECURSIVE RStrip(_)
RStrip(t) ==
    IF t # <<>> /\ t[Len(t)] \in Whitespace
    THEN RStrip(SubSeq(t, 1, Len(t) - 1)) ELSE t

\* str.strip()
Strip(t) == RStrip(LStrip(t))

RECURSIVE DigitRun(_, _)
\* the number of consecutive digits of t from 1-based position p on
DigitRun(t, p) ==
    IF p <= Len(t) /\ t[p] \in Digits THEN 1 + DigitRun(t, p + 1) ELSE 0

\* The end (exclusive, 1-based) of the match of \d*\.?\d+ that starts at p,
\* 0 when there is none.  \d* is greedy: it takes the whole run of m digits,
\* then \.?\d+ needs a point and at least one digit; failing that the
\* matcher gives one digit back to \d+ and the match is the run itself.
NumberEnd(t, p) ==
    LET m == DigitRun(t, p)
        r == DigitRun(t, p + m + 1)
    IN  IF p + m <= Len(t) /\ t[p + m] = DecimalPoint /\ r >= 1
        THEN p + m + 1 + r
        ELSE IF m >= 1 THEN p + m ELSE 0

\* The end of the match of [-+]?\d*\.?\d+ that starts at s, 0 when none.
\* A sign is taken when present; without it nothing matches at a sign.
MatchEnd(t, s) ==
    IF s <= Len(t) /\ t[s] \in Signs THEN NumberEnd(t, s + 1)
    ELSE NumberEnd(t, s)

RECURSIVE Search(_, _)
\* re.search: the match at the leftmost position that has one, <<>> if none
Search(t, s) ==
    IF s > Len(t) THEN <<>>
    ELSE IF MatchEnd(t, s) # 0 THEN SubSeq(t, s, MatchEnd(t, s) - 1)
    ELSE Search(t, s + 1)

RECURSIVE DigitsValue(_)
DigitsValue(ds) ==
    IF ds = <<>> THEN 0
    ELSE 10 * DigitsValue(SubSeq(ds, 1, Len(ds) - 1)) + (ds[Len(ds)] - 48)

RECURSIVE Normal(_, _)
\* a decimal numerator / 10^decimals without trailing zero decimals
Normal(n, e) == IF e > 0 /\ n % 10 = 0 THEN Normal(n \div 10, e - 1) ELSE <<n, e>>

\* float(m) of a matched literal m: its value as <<numerator, decimals>>,
\* so that "5.00", "5.0" and "5" are one value
Float(m) ==
    LET neg  == m[1] = 45
        body == IF m[1] \in Signs THEN Tail(m) ELSE m
        ip   == DigitRun(body, 1)
        frac == IF ip < Len(body) THEN SubSeq(body, ip + 2, Len(body)) ELSE <<>>
        mag  == Normal(DigitsValue(SubSeq(body, 1, ip) \o frac), Len(frac))
    IN  <<IF neg THEN 0 - mag[1] ELSE mag[1], mag[2]>>

\* a mutant of NeedsFix: the trigger is the byte the corrector keys off
PointInResponse(raw) == \E k \in 1..Len(raw) : raw[k] = DecimalPoint

\* 49 in list(response), line 28
NeedsFix(raw) == \E k \in 1..Len(raw) : raw[k] = TriggerByte

\* parse_value(response): the bytes decoded (after the optional correction),
\* the stripped text searched, whether the except branch printed its
\* diagnostic (line 39), and the value returned
parse_value(raw) ==
    LET bs == IF NeedsFix(raw) THEN fix_BKResponse_list(raw) ELSE raw
    IN  IF ~Decodable(bs)
        THEN [bytes |-> bs, text |-> <<>>, logged |-> TRUE,
              value |-> Sentinel]
        ELSE LET text == Strip(bs)
                 m    == Search(text, 1)
             IN  [bytes |-> bs, text |-> text, logged |-> FALSE,
                  value |-> IF m # <<>> THEN Float(m) ELSE Sentinel]

NoParse == [bytes |-> <<>>, text |-> <<>>, logged |-> FALSE,
            value |-> Sentinel]

-----------------------------------------------------------------------------
(* class BK1697B, BK1697B.py lines 42-186 *)

MonThreads == {"mon1", "mon2"}
\* an order of the monitor threads: a new thread takes the first free name
Rank(t) == IF t = "mon1" THEN 1 ELSE 2
Threads == {"main"} \cup MonThreads

\* the public methods and the helper each one goes through
QueryMethods == {"get_idn", "get_version", "get_output_state"}
FQueryMethods == {"get_voltage_setting", "get_current_setting", "measure_voltage",
                  "measure_current", "measure_power",
                  "get_upperlimit_voltage_setting", "get_upperlimit_current_setting"}
WriteMethods == {"set_voltage", "set_current", "turnon_output", "turnoff_output",
                 "set_upperlimit_voltage", "set_upperlimit_current"}
Methods == QueryMethods \cup FQueryMethods \cup WriteMethods

Kind(m) ==
    IF m \in QueryMethods THEN "_query"
    ELSE IF m \in FQueryMethods THEN "_fquery" ELSE "_write"

\* a mutant of Command: turnon_output sends 1 and turnoff_output 0
CommandUninverted(m) ==
    CASE m = "get_idn" -> "*IDN?\n"
      [] m = "get_version" -> "SYST:VER?\n"
      [] m = "set_voltage" -> "VOLT <v>V\n"
      [] m = "set_current" -> "CURR <i>A\n"
      [] m = "get_voltage_setting" -> "VOLT?\n"
      [] m = "get_current_setting" -> "CURR?\n"
      [] m = "measure_voltage" -> "MEAS:VOLT?\n"
      [] m = "measure_current" -> "MEAS:SCAL:CURR:DC?\n"
      [] m = "measure_power" -> "MEAS:POW?\n"
      [] m = "turnon_output" -> "OUTP 1\n"
      [] m = "turnoff_output" -> "OUTP 0\n"
      [] m = "get_output_state" -> "OUTP?\n"
      [] m = "set_upperlimit_voltage" -> "VOLT:LIM <v>V\n"
      [] m = "set_upperlimit_current" -> "CURR:LIM <i>A\n"
      [] m = "get_upperlimit_voltage_setting" -> "VOLT:LIM?\n"
      [] m = "get_upperlimit_current_setting" -> "CURR:LIM?\n"

\* the command each method sends; <v> and <i> stand for the "%.2f" text of
\* the argument of a setter
Command(m) ==
    CASE m = "get_idn" -> "*IDN?\n"
      [] m = "get_version" -> "SYST:VER?\n"
      [] m = "set_voltage" -> "VOLT <v>V\n"
      [] m = "set_current" -> "CURR <i>A\n"
      [] m = "get_voltage_setting" -> "VOLT?\n"
      [] m = "get_current_setting" -> "CURR?\n"
      [] m = "measure_voltage" -> "MEAS:VOLT?\n"
      [] m = "measure_current" -> "MEAS:SCAL:CURR:DC?\n"
      [] m = "measure_power" -> "MEAS:POW?\n"
      [] m = "turnon_output" -> "OUTP 0\n"
      [] m = "turnoff_output" -> "OUTP 1\n"
      [] m = "get_output_state" -> "OUTP?\n"
      [] m = "set_upperlimit_voltage" -> "VOLT:LIM <v>V\n"
      [] m = "set_upperlimit_current" -> "CURR:LIM <i>A\n"
      [] m = "get_upperlimit_voltage_setting" -> "VOLT:LIM?\n"
      [] m = "get_upperlimit_current_setting" -> "CURR:LIM?\n"

\* What a call hands back: tag "none" while it runs, "None", "str" (val the
\* characters), "float" (val <<numerator, decimals>>), "bool", or "raise"
\* (val the exception).
NoRet == [tag |-> "none", val |-> 0]
PyNone == [tag |-> "None", val |-> 0]
Raise(e) == [tag |-> "raise", val |-> e]

\* The lines the device is taken to answer with: "0\n", "1\n", "2\n", a
\* blank line, "V\n", an undecodable line, "5.00V\n", "1.50A\n"
Line0 == <<48, 10>>
Line1 == <<49, 10>>
Line2 == <<50, 10>>
LineBlank == <<10>>
LineText == <<86, 10>>
LineBad == <<255, 10>>
LineVolt == <<53, 46, 48, 48, 86, 10>>
LineCurr == <<49, 46, 53, 48, 65, 10>>
DeviceLines == {Line0, Line1, Line2, LineBlank, LineText, LineBad, LineVolt, LineCurr}

\* the lines the device may answer a command with; <<>> is no answer
\* within the read timeout
Replies(cmd) ==
    {<<>>} \cup
    CASE cmd = "OUTP?\n" -> {Line0, Line1, Line2, LineBlank, LineText, LineBad}
      [] cmd \in {"VOLT?\n", "MEAS:VOLT?\n", "VOLT:LIM?\n", "MEAS:POW?\n"} -> {LineVolt, LineBad}
      [] cmd \in {"CURR?\n", "MEAS:SCAL:CURR:DC?\n", "CURR:LIM?\n"} -> {LineCurr, LineBad}
      [] cmd \in {"*IDN?\n", "SYST:VER?\n"} -> {LineText, LineBad}
      [] OTHER -> {}

\* a mutant of QueryResult: an undecodable line is taken as empty text
QueryResultLenient(line) ==
    IF line = <<>> THEN PyNone
    ELSE IF ~Decodable(line) THEN [tag |-> "str", val |-> <<>>]
    ELSE [tag |-> "str", val |-> Strip(line)]

\* lines 82-86 of _query: None for an empty read and for an undecodable
\* line (with a warning), else the decoded, stripped text
QueryResult(line) ==
    IF line = <<>> THEN PyNone
    ELSE IF ~Decodable(line) THEN PyNone
    ELSE [tag |-> "str", val |-> Strip(line)]

\* int(s) accepts an optional sign and at least one digit (s is stripped;
\* the underscore form is outside the lines explored)
IsIntLiteral(t) ==
    LET body == IF t # <<>> /\ t[1] \in Signs THEN Tail(t) ELSE t
    IN  body # <<>> /\ DigitRun(body, 1) = Len(body)

\* a mutant of OutputState: the wire value is not inverted
OutputStateWire(state) ==
    IF state.tag = "None" THEN [tag |-> "bool", val |-> FALSE]
    ELSE IF ~IsIntLiteral(state.val) THEN Raise("ValueError")
    ELSE [tag |-> "bool", val |-> DigitsValue(
              IF state.val[1] \in Signs THEN Tail(state.val) ELSE state.val) # 0]

\* lines 157-158 of get_output_state: off = bool(int(state)), True when
\* state is None; the method returns not off
OutputState(state) ==
    IF state.tag = "None" THEN [tag |-> "bool", val |-> FALSE]
    ELSE IF ~IsIntLiteral(state.val) THEN Raise("ValueError")
    ELSE [tag |-> "bool", val |-> ~(DigitsValue(
              IF state.val[1] \in Signs THEN Tail(state.val) ELSE state.val) # 0)]

\* what method m returns once readline() has returned line
MethodResult(m, line) ==
    IF m = "get_output_state" THEN OutputState(QueryResult(line))
    ELSE IF Kind(m) = "_query" THEN QueryResult(line)
    ELSE [tag |-> "float", val |-> parse_value(line).value]

\* a mutant of StepAfter: the response is read before the settle delay
StepAfterReadFirst(kind, step) ==
    CASE step = "reset" -> "write"
      [] step = "write" -> "flush"
      [] step = "flush" -> IF kind = "_write" THEN "sleep" ELSE "read"
      [] step = "read" -> "sleep"
      [] step = "sleep" -> "done"

\* the statement that follows each link statement of _query / _fquery
\* (lines 77-81, 92-96) and of _write (lines 103-106)
StepAfter(kind, step) ==
    CASE step = "reset" -> "write"
      [] step = "write" -> "flush"
      [] step = "flush" -> "sleep"
      [] step = "sleep" -> IF kind = "_write" THEN "done" ELSE "read"
      [] step = "read" -> "done"

\* a mutant of IsOpen: only a missing Serial object counts as not open
IsOpenNoCheck(t) == obj[t] = "latest" /\ ser # "none"

\* self.ser and self.ser.is_open, for the object thread t's call is on.  An
\* object is closed before the next one is made, so every object but the
\* latest is closed.
IsOpen(t) == obj[t] = "latest" /\ ser = "open"

\* thread t calls method m of the latest driver object
BeginCall(t, m) ==
    /\ pc' = [pc EXCEPT ![t] = "enter"]
    /\ cur' = [cur EXCEPT ![t] = m]
    /\ obj' = [obj EXCEPT ![t] = "latest"]
    /\ ev' = [ev EXCEPT ![t] = <<>>]
    /\ resp' = [resp EXCEPT ![t] = <<>>]
    /\ ret' = [ret EXCEPT ![t] = NoRet]

\* thread t's call ends by raising e
Raises(t, e) ==
    /\ pc' = [pc EXCEPT ![t] = "done"]
    /\ ret' = [ret EXCEPT ![t] = Raise(e)]
    /\ UNCHANGED <<cur, obj, ev, resp>>

\* thread t's call has performed link event e and goes on
Performs(t, e) ==
    /\ pc' = [pc EXCEPT ![t] = StepAfter(Kind(cur[t]), pc[t])]
    /\ ev' = [ev EXCEPT ![t] = Append(@, e)]
    /\ UNCHANGED <<cur, obj>>

\* what readline() returns: the first line of the input buffer, b"" when
\* there is none before the timeout
FirstLine == IF inbuf = <<>> THEN <<>> ELSE Head(inbuf)

\* lines 75-76, 90-91, 101-102: the guard of the three helpers
Enter(t) ==
    /\ pc[t] = "enter"
    /\ IF IsOpen(t)
       THEN /\ pc' = [pc EXCEPT ![t] = "reset"]
            /\ UNCHANGED <<cur, obj, ev, resp, ret>>
       ELSE Raises(t, "RuntimeError")
    /\ UNCHANGED <<pureVars, plotVars, guiVars, linkVars, device>>

\* self.ser.reset_input_buffer(); on a port closed meanwhile (by another
\* thread) pyserial raises
ResetInput(t) ==
    /\ pc[t] = "reset"
    /\ IF IsOpen(t)
       THEN /\ Performs(t, "reset_input_buffer")
            /\ inbuf' = <<>>
            /\ UNCHANGED <<resp, ret>>
       ELSE Raises(t, "SerialException") /\ UNCHANGED inbuf
    /\ UNCHANGED <<pureVars, plotVars, guiVars, ser, closes, outp, device>>

\* the device takes an OUTP command
OutpAfter(cmd) ==
    IF cmd = "OUTP 0\n" THEN 0 ELSE IF cmd = "OUTP 1\n" THEN 1 ELSE outp

\* self.ser.write(cmd.encode()).  The device takes the command; what it
\* answers, if anything, is in the input buffer when the line is read (an
\* answer later than that is cleared by the next call before it is seen).
Transmit(t) ==
    /\ pc[t] = "write"
    /\ IF IsOpen(t)
       THEN /\ Performs(t, "write")
            /\ outp' = OutpAfter(Command(cur[t]))
            /\ \E reply \in Replies(Command(cur[t])) :
                  inbuf' = IF reply = <<>> THEN inbuf ELSE Append(inbuf, reply)
            /\ UNCHANGED <<resp, ret>>
       ELSE Raises(t, "SerialException") /\ UNCHANGED <<inbuf, outp>>
    /\ UNCHANGED <<pureVars, plotVars, guiVars, ser, closes, device>>

\* self.ser.flush()
Flush(t) ==
    /\ pc[t] = "flush"
    /\ IF IsOpen(t)
       THEN Performs(t, "flush") /\ UNCHANGED <<resp, ret>>
       ELSE Raises(t, "SerialException")
    /\ UNCHANGED <<pureVars, plotVars, guiVars, linkVars, device>>

\* time.sleep(delay); _write returns after it
Settle(t) ==
    /\ pc[t] = "sleep"
    /\ Performs(t, "sleep")
    /\ ret' = [ret EXCEPT ![t] =
                  IF StepAfter(Kind(cur[t]), "sleep") = "done" THEN PyNone ELSE @]
    /\ UNCHANGED resp
    /\ UNCHANGED <<pureVars, plotVars, guiVars, linkVars, device>>

\* response = self.ser.readline() and the return statement
ReadLine(t) ==
    /\ pc[t] = "read"
    /\ IF IsOpen(t)
       THEN /\ Performs(t, "readline")
            /\ ret' = [ret EXCEPT ![t] =
                  IF StepAfter(Kind(cur[t]), "read") = "done"
                  THEN MethodResult(cur[t], FirstLine)
                  ELSE @]
            /\ resp' = [resp EXCEPT ![t] = FirstLine]
            /\ inbuf' = IF inbuf = <<>> THEN <<>> ELSE Tail(inbuf)
       ELSE Raises(t, "SerialException") /\ UNCHANGED inbuf
    /\ UNCHANGED <<pureVars, plotVars, guiVars, ser, closes, outp, device>>

\* one statement of the driver call thread t is in
LinkStep(t) ==
    \/ Enter(t)
    \/ ResetInput(t)
    \/ Transmit(t)
    \/ Flush(t)
    \/ Settle(t)
    \/ ReadLine(t)

\* a statement of a driver call, where the caller keeps no note of its calls
CallStep(t) == LinkStep(t) /\ UNCHANGED last

\* a mutant of CloseEffect: Serial.close() is called whenever there is a Serial
CloseUnguarded ==
    /\ ser' = IF ser = "none" THEN "none" ELSE "closed"
    /\ closes' = IF ser = "none" THEN closes ELSE closes + 1

\* close(), lines 179-183: closes the Serial if there is one and it is open
CloseEffect ==
    /\ ser' = IF ser = "open" THEN "closed" ELSE ser
    /\ closes' = IF ser = "open" THEN closes + 1 ELSE closes

\* __init__, lines 51-61: serial.Serial(...) opens the port
OpenPort(t) ==
    /\ ser' = "open"
    /\ closes' = 0
    /\ obj' = [u \in Threads |-> IF obj[u] = "latest" THEN "older" ELSE obj[u]]
    /\ pc' = [pc EXCEPT ![t] = "warmup"]
    /\ UNCHANGED <<inbuf, outp, cur, ev, resp, ret>>

\* __init__, lines 53-54 and 67-68: the port cannot be opened, self.ser
\* stays None and RuntimeError is raised
OpenFails(t) ==
    /\ ser' = "none"
    /\ obj' = [u \in Threads |-> IF obj[u] = "latest" THEN "older" ELSE obj[u]]
    /\ pc' = [pc EXCEPT ![t] = "raising"]
    /\ UNCHANGED <<closes, inbuf, outp, cur, ev, resp, ret>>

\* __init__, lines 62-65: after the warm-up sleep both buffers are cleared
Warmup(t) ==
    /\ pc[t] = "warmup"
    /\ inbuf' = <<>>
    /\ UNCHANGED <<ser, closes, outp>>

\* the locals of a monitor thread outside an iteration
NoSample == [v |-> Sentinel, c |-> Sentinel, ts |-> 0]

\* the locals of update_plot outside it
NoSnapshot == [t |-> <<>>, v |-> <<>>, c |-> <<>>]

\* BK1697B_GUI.__init__, lines 41-44: the lock is free, the buffers empty
NoSamples ==
    /\ times = <<>>
    /\ volts = <<>>
    /\ currs = <<>>
    /\ data_lock = "free"
    /\ now = 0
    /\ sample = [t \in MonThreads |-> NoSample]
    /\ snapshot = NoSnapshot
    /\ rows = <<>>

IdleCalls ==
    /\ pc = [t \in Threads |-> "idle"]
    /\ cur = [t \in Threads |-> "get_idn"]
    /\ obj = [t \in Threads |-> "none"]
    /\ ev = [t \in Threads |-> <<>>]
    /\ resp = [t \in Threads |-> <<>>]
    /\ ret = [t \in Threads |-> NoRet]

NoDriver ==
    /\ ser = "none"
    /\ closes = 0
    /\ inbuf = <<>>
    /\ outp \in {0, 1}
    /\ device = "None"
    /\ IdleCalls
    /\ monitoring = FALSE
    /\ cb = "none"
    /\ quit = FALSE
    /\ last = "none"
    /\ NoSamples

NoPure ==
    /\ response = <<>>
    /\ called = "none"
    /\ res_list = <<>>
    /\ parsed = NoParse

-----------------------------------------------------------------------------
(* A script that uses one driver object at a time from one thread, as the  *)
(* example of BK1697B.py lines 192-218 does, calling any method in any     *)
(* order                                                                   *)

InitDriver == NoPure /\ NoDriver

\* psu = BK1697B(port): the port opens
ScriptOpen ==
    /\ device = "None"
    /\ pc["main"] = "idle"
    /\ OpenPort("main")
    /\ UNCHANGED <<pureVars, plotVars, last, guiVars, device>>

\* the constructor returns the object
ScriptBuilt ==
    /\ Warmup("main")
    /\ device' = "latest"
    /\ pc' = [pc EXCEPT !["main"] = "idle"]
    /\ UNCHANGED <<pureVars, plotVars, last, guiVars, cur, obj, ev, resp, ret>>

\* clearing the buffers fails with a SerialException: RuntimeError is
\* raised with the port open
ScriptBuildFails ==
    /\ pc["main"] = "warmup"
    /\ pc' = [pc EXCEPT !["main"] = "raising"]
    /\ UNCHANGED <<pureVars, plotVars, last, guiVars, linkVars, device, cur, obj, ev, resp, ret>>

\* psu = BK1697B(port) raises as the port cannot be opened
ScriptOpenFails ==
    /\ device = "None"
    /\ pc["main"] = "idle"
    /\ OpenFails("main")
    /\ UNCHANGED <<pureVars, plotVars, last, guiVars, device>>

\* the object of a constructor that raised is held by nobody: __del__,
\* lines 185-186, runs close() on it
ScriptDelUnbuilt ==
    /\ pc["main"] = "raising"
    /\ CloseEffect
    /\ pc' = [pc EXCEPT !["main"] = "idle"]
    /\ UNCHANGED <<pureVars, plotVars, last, guiVars, inbuf, outp, device, cur, obj, ev, resp, ret>>

\* psu.<m>() on the object held
ScriptCall(m) ==
    /\ device # "None"
    /\ pc["main"] \in {"idle", "done"}
    /\ BeginCall("main", m)
    /\ UNCHANGED <<pureVars, plotVars, last, guiVars, linkVars, device>>

\* psu.close()
ScriptClose ==
    /\ device # "None"
    /\ pc["main"] \in {"idle", "done"}
    /\ CloseEffect
    /\ UNCHANGED <<pureVars, plotVars, last, guiVars, inbuf, outp, device, callVars>>

\* the object is dropped: __del__, lines 185-186, runs close()
ScriptDel ==
    /\ device # "None"
    /\ pc["main"] \in {"idle", "done"}
    /\ CloseEffect
    /\ device' = "None"
    /\ pc' = [pc EXCEPT !["main"] = "idle"]
    /\ UNCHANGED <<pureVars, plotVars, last, guiVars, inbuf, outp, cur, obj, ev, resp, ret>>

NextDriver ==
    \/ ScriptOpen
    \/ ScriptBuilt
    \/ ScriptBuildFails
    \/ ScriptOpenFails
    \/ ScriptDelUnbuilt
    \/ \E m \in Methods : ScriptCall(m)
    \/ CallStep("main")
    \/ ScriptClose
    \/ ScriptDel

SpecDriver == InitDriver /\ [][NextDriver]_vars

-----------------------------------------------------------------------------
(* The same script against a device that answers OUTP? with the wire value *)
(* of its output switch, in time for the read.  The script notes which of  *)
(* turnon_output() and turnoff_output() returned to it last.               *)

InitHonest == NoPure /\ NoDriver

\* the line for the wire value w of the output switch
WireLine(w) == IF w = 0 THEN Line0 ELSE Line1

\* a statement of the script's driver call: the answer to OUTP? is the
\* switch's value, and a turnon_output() or turnoff_output() that returns
\* (line 106 of _write) is noted
HonestStep ==
    /\ LinkStep("main")
    /\ (pc["main"] = "write" /\ IsOpen("main") /\ Command(cur["main"]) = "OUTP?\n") =>
           inbuf' = Append(inbuf, WireLine(outp))
    /\ last' = IF pc["main"] = "sleep"
                   /\ cur["main"] \in {"turnon_output", "turnoff_output"}
                THEN cur["main"]
                ELSE last

NextHonest ==
    \/ ScriptOpen
    \/ ScriptBuilt
    \/ ScriptBuildFails
    \/ ScriptOpenFails
    \/ ScriptDelUnbuilt
    \/ \E m \in Methods : ScriptCall(m)
    \/ HonestStep
    \/ ScriptClose
    \/ ScriptDel

SpecHonest == InitHonest /\ [][NextHonest]_vars

-----------------------------------------------------------------------------
(* class BK1697B_GUI, BK1697B_GUI.py: the callbacks of the main thread and  *)
(* the monitor threads.  A callback runs to its end before the next one    *)
(* starts; the monitor threads run beside it.                              *)

InitGUI == NoPure /\ NoDriver

\* the locals of thread t's callback or loop iteration are gone
Forget(t, where) ==
    /\ pc' = [pc EXCEPT ![t] = where]
    /\ cur' = [cur EXCEPT ![t] = "get_idn"]
    /\ obj' = [obj EXCEPT ![t] = "none"]
    /\ ev' = [ev EXCEPT ![t] = <<>>]
    /\ resp' = [resp EXCEPT ![t] = <<>>]
    /\ ret' = [ret EXCEPT ![t] = NoRet]

MainFree == ~quit /\ cb = "none" /\ pc["main"] = "idle"

\* connect_device with no device, line 169: BK1697B(port) opens the port
GuiConnect ==
    /\ MainFree
    /\ device = "None"
    /\ OpenPort("main")
    /\ cb' = "connect"
    /\ UNCHANGED <<pureVars, plotVars, last, device, monitoring, quit>>

\* line 169: BK1697B(port) raises as the port cannot be opened
GuiConnectFails ==
    /\ MainFree
    /\ device = "None"
    /\ OpenFails("main")
    /\ cb' = "connect"
    /\ UNCHANGED <<pureVars, plotVars, last, device, monitoring, quit>>

\* line 169: clearing the buffers in the constructor fails
GuiBuildFails ==
    /\ ~quit
    /\ cb = "connect"
    /\ pc["main"] = "warmup"
    /\ pc' = [pc EXCEPT !["main"] = "raising"]
    /\ UNCHANGED <<pureVars, plotVars, last, guiVars, linkVars, device, cur, obj, ev, resp, ret>>

\* lines 180-181: the error is shown; the object of the failed constructor
\* is dropped and its __del__ runs close()
GuiConnectError ==
    /\ ~quit
    /\ pc["main"] = "raising"
    /\ CloseEffect
    /\ pc' = [pc EXCEPT !["main"] = "idle"]
    /\ cb' = "none"
    /\ UNCHANGED <<pureVars, plotVars, last, inbuf, outp, device, cur, obj, ev, resp, ret,
                   monitoring, quit>>

\* lines 169-175: the constructor returns, self.device is set and
\* get_output_state() is called
GuiBuilt ==
    /\ ~quit
    /\ cb = "connect"
    /\ Warmup("main")
    /\ device' = "latest"
    /\ BeginCall("main", "get_output_state")
    /\ UNCHANGED <<pureVars, plotVars, last, guiVars>>

\* lines 175-181: the enable button is set from the state, or the error of
\* get_output_state() is shown
GuiConnected ==
    /\ ~quit
    /\ cb = "connect"
    /\ pc["main"] = "done"
    /\ Forget("main", "idle")
    /\ cb' = "none"
    /\ UNCHANGED <<pureVars, plotVars, last, linkVars, device, monitoring, quit>>

\* connect_device with a device, lines 154-166: monitoring is switched off,
\* the device closed and dropped
GuiDisconnect ==
    /\ MainFree
    /\ device # "None"
    /\ monitoring' = FALSE
    /\ CloseEffect
    /\ device' = "None"
    /\ UNCHANGED <<pureVars, plotVars, last, inbuf, outp, callVars, cb, quit>>

\* the end of shutdown, lines 192-201: the device is closed and dropped and
\* the window destroyed
\* the window is destroyed: mainloop() returns, the process ends and its
\* daemon threads with it
ShutdownEffect ==
    /\ IF device # "None" THEN CloseEffect ELSE UNCHANGED <<ser, closes>>
    /\ device' = "None"
    /\ quit' = TRUE
    /\ cb' = "none"
    /\ pc' = [t \in Threads |-> "idle"]
    /\ cur' = [t \in Threads |-> "get_idn"]
    /\ obj' = [t \in Threads |-> "none"]
    /\ ev' = [t \in Threads |-> <<>>]
    /\ resp' = [t \in Threads |-> <<>>]
    /\ ret' = [t \in Threads |-> NoRet]
    /\ UNCHANGED <<pureVars, plotVars, last, inbuf, outp>>

\* shutdown, lines 186-189: with monitoring on it is switched off and the
\* main thread sleeps 0.2 s first
GuiShutdown ==
    /\ MainFree
    /\ IF monitoring
       THEN /\ monitoring' = FALSE
            /\ cb' = "shutdown"
            /\ pc' = [pc EXCEPT !["main"] = "shutpause"]
            /\ UNCHANGED <<pureVars, plotVars, last, linkVars, device, cur, obj, ev, resp, ret, quit>>
       ELSE ShutdownEffect /\ UNCHANGED monitoring

GuiShutdownEnd ==
    /\ ~quit
    /\ pc["main"] = "shutpause"
    /\ ShutdownEffect
    /\ UNCHANGED monitoring

\* the driver calls of the callbacks, in their order
CallsOf(c) ==
    CASE c = "read" -> <<"measure_voltage", "measure_current">>
      [] c = "apply" -> <<"set_voltage", "set_current",
                          "set_upperlimit_voltage", "set_upperlimit_current">>
      [] c = "toggle" -> <<"get_output_state">>
      [] OTHER -> <<>>

\* get_measurements (lines 205-211), apply_settings (243-252) and
\* toggle_output (260-265) with a device: the first driver call
GuiCallback(c) ==
    /\ MainFree
    /\ device # "None"
    /\ cb' = c
    /\ BeginCall("main", CallsOf(c)[1])
    /\ UNCHANGED <<pureVars, plotVars, last, linkVars, device, monitoring, quit>>

\* the 1-based place of method m in the calls of callback c, 0 if not there
PlaceOf(c, m) ==
    IF \E k \in 1..Len(CallsOf(c)) : CallsOf(c)[k] = m
    THEN CHOOSE k \in 1..Len(CallsOf(c)) : CallsOf(c)[k] = m
    ELSE 0

\* the driver call that follows in the callback, "" when it ends: after an
\* exception (lines 240, 257, 274) nothing follows; toggle_output goes on
\* with turnoff_output() when the state is on, else turnon_output()
FollowUp(c, m, r) ==
    IF r.tag = "raise" THEN ""
    ELSE IF c = "toggle"
         THEN (IF m # "get_output_state" THEN ""
               ELSE IF r.val THEN "turnoff_output" ELSE "turnon_output")
    ELSE IF PlaceOf(c, m) < Len(CallsOf(c)) THEN CallsOf(c)[PlaceOf(c, m) + 1]
    ELSE ""

\* a driver call of the callback has ended: the next one, or the callback ends
GuiContinue ==
    /\ ~quit
    /\ cb \in {"read", "apply", "toggle"}
    /\ pc["main"] = "done"
    /\ IF FollowUp(cb, cur["main"], ret["main"]) = ""
       THEN Forget("main", "idle") /\ cb' = "none"
       ELSE BeginCall("main", FollowUp(cb, cur["main"], ret["main"]))
            /\ UNCHANGED cb
    /\ UNCHANGED <<pureVars, plotVars, last, linkVars, device, monitoring, quit>>

\* start_monitoring, lines 277-285: a new thread runs _monitor_loop
GuiStart ==
    /\ MainFree
    /\ device # "None"
    /\ ~monitoring
    /\ monitoring' = TRUE
    /\ \E t \in MonThreads :
          /\ pc[t] = "idle"
          /\ \A u \in MonThreads : pc[u] = "idle" => Rank(t) <= Rank(u)
          /\ pc' = [pc EXCEPT ![t] = "loop"]
    /\ UNCHANGED <<pureVars, plotVars, last, linkVars, device, cur, obj, ev, resp, ret, cb, quit>>

\* stop_monitoring, lines 287-289
GuiStop ==
    /\ MainFree
    /\ monitoring
    /\ monitoring' = FALSE
    /\ UNCHANGED <<pureVars, plotVars, last, linkVars, device, callVars, cb, quit>>

\* thread t calls method m of self.device; on None the AttributeError is
\* caught at line 324 and the thread goes to its sleep
MonCall(t, m) ==
    IF device = "None" THEN Forget(t, "pause") ELSE BeginCall(t, m)

\* _monitor_loop, lines 295-297: while self.monitoring, measure_voltage()
MonLoop(t) ==
    /\ ~quit
    /\ pc[t] = "loop"
    /\ IF monitoring THEN MonCall(t, "measure_voltage") ELSE Forget(t, "idle")
    /\ UNCHANGED <<pureVars, plotVars, last, linkVars, device, guiVars>>

\* lines 297-298: measure_voltage() has ended; measure_current() follows
\* unless it raised
MonSecond(t) ==
    /\ ~quit
    /\ pc[t] = "done"
    /\ cur[t] = "measure_voltage"
    /\ IF ret[t].tag = "raise" THEN Forget(t, "pause")
       ELSE MonCall(t, "measure_current")
    /\ UNCHANGED <<pureVars, plotVars, last, linkVars, device, guiVars>>

\* lines 299-326: measure_current() has ended; the sample is stored, shown
\* and logged unless the call raised (what becomes of the buffers is
\* followed in SpecPlot, not here)
MonStore(t) ==
    /\ ~quit
    /\ pc[t] = "done"
    /\ cur[t] = "measure_current"
    /\ Forget(t, "pause")
    /\ UNCHANGED <<pureVars, plotVars, last, linkVars, device, guiVars>>

\* line 326: time.sleep(10) is over
MonWake(t) ==
    /\ ~quit
    /\ pc[t] = "pause"
    /\ pc' = [pc EXCEPT ![t] = "loop"]
    /\ UNCHANGED <<pureVars, plotVars, last, linkVars, device, cur, obj, ev, resp, ret, guiVars>>

NextGUI ==
    \/ GuiConnect
    \/ GuiConnectFails
    \/ GuiBuildFails
    \/ GuiConnectError
    \/ GuiBuilt
    \/ GuiConnected
    \/ GuiDisconnect
    \/ GuiShutdown
    \/ GuiShutdownEnd
    \/ \E c \in {"read", "apply", "toggle"} : GuiCallback(c)
    \/ GuiContinue
    \/ GuiStart
    \/ GuiStop
    \/ \E t \in Threads : CallStep(t)
    \/ \E t \in MonThreads : MonLoop(t) \/ MonSecond(t) \/ MonStore(t) \/ MonWake(t)

SpecGUI == InitGUI /\ [][NextGUI]_vars

-----------------------------------------------------------------------------
(* class BK1697B_GUI, BK1697B_GUI.py: the sample buffers.  The monitor     *)
(* threads and update_plot are followed statement by statement through     *)
(* what they do under self.data_lock; each driver call is one step here,   *)
(* and the samples are not followed in SpecGUI.                            *)

\* the length of self.time_window, line 40, in minutes
time_window == 30

\* thread t goes on to its statement at where
Go(t, where) ==
    /\ pc' = [pc EXCEPT ![t] = where]
    /\ UNCHANGED <<cur, obj, ev, resp, ret>>

\* what method m can return on an open connection
Readings(m) == {MethodResult(m, line).val : line \in Replies(Command(m))}

InitPlot == NoPure /\ NoDriver

\* connect_device with no device, lines 168-175: the constructor opens the
\* port and clears its buffers, self.device is set
PlotConnect ==
    /\ MainFree
    /\ device = "None"
    /\ ser' = "open"
    /\ closes' = 0
    /\ inbuf' = <<>>
    /\ device' = "latest"
    /\ UNCHANGED <<pureVars, outp, callVars, guiVars, last, plotVars>>

\* the time datetime.now() gives moves on
Tick ==
    /\ ~quit
    /\ now < MaxClock
    /\ now' = now + 1
    /\ UNCHANGED <<pureVars, linkVars, device, callVars, guiVars, last,
                   times, volts, currs, data_lock, sample, snapshot, rows>>

\* _monitor_loop, lines 295-297: while self.monitoring, v = measure_voltage();
\* with self.device None the AttributeError is caught at line 324
PlotVoltage(t) ==
    /\ ~quit
    /\ pc[t] = "loop"
    /\ IF ~monitoring THEN Go(t, "idle") /\ UNCHANGED sample
       ELSE IF device = "None" THEN Go(t, "pause") /\ UNCHANGED sample
       ELSE /\ \E r \in Readings("measure_voltage") :
                  sample' = [sample EXCEPT ![t].v = r]
            /\ Go(t, "current")
    /\ UNCHANGED <<pureVars, linkVars, device, guiVars, last,
                   times, volts, currs, data_lock, now, snapshot, rows>>

\* line 298: c = measure_current()
PlotCurrent(t) ==
    /\ ~quit
    /\ pc[t] = "current"
    /\ IF device = "None"
       THEN Go(t, "pause") /\ sample' = [sample EXCEPT ![t] = NoSample]
       ELSE /\ \E r \in Readings("measure_current") :
                  sample' = [sample EXCEPT ![t].c = r]
            /\ Go(t, "stamp")
    /\ UNCHANGED <<pureVars, linkVars, device, guiVars, last,
                   times, volts, currs, data_lock, now, snapshot, rows>>

\* line 299: ts = datetime.now()
PlotStamp(t) ==
    /\ ~quit
    /\ pc[t] = "stamp"
    /\ sample' = [sample EXCEPT ![t].ts = now * TickMinutes]
    /\ Go(t, "acquire")
    /\ UNCHANGED <<pureVars, linkVars, device, guiVars, last,
                   times, volts, currs, data_lock, now, snapshot, rows>>

\* line 301: with self.data_lock, once the lock is free
PlotAcquire(t) ==
    /\ ~quit
    /\ pc[t] = "acquire"
    /\ data_lock = "free"
    /\ Len(times) < MaxSamples
    /\ data_lock' = t
    /\ Go(t, "append_t")
    /\ UNCHANGED <<pureVars, linkVars, device, guiVars, last,
                   times, volts, currs, now, sample, snapshot, rows>>

\* line 302: self.times.append(ts)
PlotAppendT(t) ==
    /\ ~quit
    /\ pc[t] = "append_t"
    /\ times' = Append(times, sample[t].ts)
    /\ rows' = Append(rows, sample[t])
    /\ Go(t, "append_v")
    /\ UNCHANGED <<pureVars, linkVars, device, guiVars, last,
                   volts, currs, data_lock, now, sample, snapshot>>

\* line 303: self.volts.append(v)
PlotAppendV(t) ==
    /\ ~quit
    /\ pc[t] = "append_v"
    /\ volts' = Append(volts, sample[t].v)
    /\ Go(t, "append_c")
    /\ UNCHANGED <<pureVars, linkVars, device, guiVars, last,
                   times, currs, data_lock, now, sample, snapshot, rows>>

\* line 304: self.currs.append(c)
PlotAppendC(t) ==
    /\ ~quit
    /\ pc[t] = "append_c"
    /\ currs' = Append(currs, sample[t].c)
    /\ Go(t, "prune")
    /\ UNCHANGED <<pureVars, linkVars, device, guiVars, last,
                   times, volts, data_lock, now, sample, snapshot, rows>>

\* line 306: the test of the while loop
TooOld(t) == times # <<>> /\ sample[t].ts - times[1] > time_window

\* line 306, and after the loop the end of the with block; the labels, the
\* alerts and the CSV row of lines 311-323 follow, then the sleep
PlotPrune(t) ==
    /\ ~quit
    /\ pc[t] = "prune"
    /\ IF TooOld(t)
       THEN Go(t, "pop_t") /\ UNCHANGED <<data_lock, sample>>
       ELSE /\ data_lock' = "free"
            /\ sample' = [sample EXCEPT ![t] = NoSample]
            /\ Go(t, "pause")
    /\ UNCHANGED <<pureVars, linkVars, device, guiVars, last,
                   times, volts, currs, now, snapshot, rows>>

\* line 307: self.times.popleft()
PlotPopT(t) ==
    /\ ~quit
    /\ pc[t] = "pop_t"
    /\ times' = Tail(times)
    /\ rows' = Tail(rows)
    /\ Go(t, "pop_v")
    /\ UNCHANGED <<pureVars, linkVars, device, guiVars, last,
                   volts, currs, data_lock, now, sample, snapshot>>

\* line 308: self.volts.popleft()
PlotPopV(t) ==
    /\ ~quit
    /\ pc[t] = "pop_v"
    /\ volts' = Tail(volts)
    /\ Go(t, "pop_c")
    /\ UNCHANGED <<pureVars, linkVars, device, guiVars, last,
                   times, currs, data_lock, now, sample, snapshot, rows>>

\* line 309: self.currs.popleft()
PlotPopC(t) ==
    /\ ~quit
    /\ pc[t] = "pop_c"
    /\ currs' = Tail(currs)
    /\ Go(t, "prune")
    /\ UNCHANGED <<pureVars, linkVars, device, guiVars, last,
                   times, volts, data_lock, now, sample, snapshot, rows>>

\* update_plot, line 333: if self.times, tested without the lock; with no
\* sample the plot is left as it is
PlotBegin ==
    /\ MainFree
    /\ times # <<>>
    /\ cb' = "plot"
    /\ Go("main", "plot_lock")
    /\ UNCHANGED <<pureVars, linkVars, device, monitoring, quit, last, plotVars>>

\* line 334: with self.data_lock, once the lock is free
PlotLock ==
    /\ ~quit
    /\ pc["main"] = "plot_lock"
    /\ data_lock = "free"
    /\ data_lock' = "main"
    /\ Go("main", "copy_t")
    /\ UNCHANGED <<pureVars, linkVars, device, guiVars, last,
                   times, volts, currs, now, sample, snapshot, rows>>

\* line 335: t = list(self.times)
PlotCopyT ==
    /\ ~quit
    /\ pc["main"] = "copy_t"
    /\ snapshot' = [snapshot EXCEPT !.t = times]
    /\ Go("main", "copy_v")
    /\ UNCHANGED <<pureVars, linkVars, device, guiVars, last,
                   times, volts, currs, data_lock, now, sample, rows>>

\* line 336: v = list(self.volts)
PlotCopyV ==
    /\ ~quit
    /\ pc["main"] = "copy_v"
    /\ snapshot' = [snapshot EXCEPT !.v = volts]
    /\ Go("main", "copy_c")
    /\ UNCHANGED <<pureVars, linkVars, device, guiVars, last,
                   times, volts, currs, data_lock, now, sample, rows>>

\* line 337: c = list(self.currs), and the end of the with block
PlotCopyC ==
    /\ ~quit
    /\ pc["main"] = "copy_c"
    /\ snapshot' = [snapshot EXCEPT !.c = currs]
    /\ data_lock' = "free"
    /\ Go("main", "draw")
    /\ UNCHANGED <<pureVars, linkVars, device, guiVars, last,
                   times, volts, currs, now, sample, rows>>

\* lines 338-346: the lines are drawn from the snapshot and update_plot
\* returns
PlotDraw ==
    /\ ~quit
    /\ pc["main"] = "draw"
    /\ snapshot' = NoSnapshot
    /\ cb' = "none"
    /\ Go("main", "idle")
    /\ UNCHANGED <<pureVars, linkVars, device, monitoring, quit, last,
                   times, volts, currs, data_lock, now, sample, rows>>

NextPlot ==
    \/ PlotConnect
    \/ GuiDisconnect
    \/ GuiShutdown
    \/ GuiShutdownEnd
    \/ GuiStart
    \/ GuiStop
    \/ Tick
    \/ \E t \in MonThreads :
          \/ PlotVoltage(t)
          \/ PlotCurrent(t)
          \/ PlotStamp(t)
          \/ PlotAcquire(t)
          \/ PlotAppendT(t)
          \/ PlotAppendV(t)
          \/ PlotAppendC(t)
          \/ PlotPrune(t)
          \/ PlotPopT(t)
          \/ PlotPopV(t)
          \/ PlotPopC(t)
          \/ MonWake(t)
    \/ PlotBegin
    \/ PlotLock
    \/ PlotCopyT
    \/ PlotCopyV
    \/ PlotCopyC
    \/ PlotDraw

SpecPlot == InitPlot /\ [][NextPlot]_vars

-----------------------------------------------------------------------------
(* The pure functions applied to every response of the bounded sets *)

InitFix ==
    /\ response \in FixInputs
    /\ called = "none"
    /\ res_list = <<>>
    /\ parsed = NoParse
    /\ NoDriver

CallFix ==
    /\ called = "none"
    /\ called' = "fix"
    /\ res_list' = fix_BKResponse_list(response)
    /\ UNCHANGED <<response, parsed, linkVars, device, callVars, guiVars, plotVars, last>>

NextFix == CallFix

SpecFix == InitFix /\ [][NextFix]_vars

InitParse ==
    /\ response \in ParseInputs
    /\ called = "none"
    /\ res_list = <<>>
    /\ parsed = NoParse
    /\ NoDriver

CallParse ==
    /\ called = "none"
    /\ called' = "parse"
    /\ parsed' = parse_value(response)
    /\ UNCHANGED <<response, res_list, linkVars, device, callVars, guiVars, plotVars, last>>

NextParse == CallParse

SpecParse == InitParse /\ [][NextParse]_vars

-----------------------------------------------------------------------------
(* Claims about fix_BKResponse_list *)

\* the 0-based index whose element has exactly n elements after it
IndexWithAfter(lst, n) == Len(lst) - 1 - n

\* response has a decimal point with exactly n elements after it
PointWithAfter(lst, n) ==
    /\ Len(lst) > n
    /\ lst[IndexWithAfter(lst, n) + 1] = DecimalPoint

-----------------------------------------------------------------------------
(* Claims about parse_value *)

\* lst without its element of 0-based index k
WithoutIndex(lst, k) == [j \in 1..(Len(lst) - 1) |-> IF j <= k THEN lst[j] ELSE lst[j + 1]]

HasByte(lst, b) == \E k \in 1..Len(lst) : lst[k] = b

\* C4: parse_value corrects the response exactly when byte 49 occurs in it.
\* Without a 49 the bytes decoded are the bytes received, also when a decimal
\* point has exactly 6 elements after it; with a 49 they are the corrected
\* bytes, one shorter when a decimal point has exactly 6 elements after it.
C4_CorrectsIffTrigger ==
    called = "parse" =>
        /\ ~HasByte(response, 49) => parsed.bytes = response
        /\ (HasByte(response, 49) /\ PointWithAfter(response, 6)) =>
               parsed.bytes = WithoutIndex(response, IndexWithAfter(response, 6) + 1)
        /\ (HasByte(response, 49) /\ ~PointWithAfter(response, 6)) =>
               parsed.bytes = response

\* "5.555555" is parsed as received: 5.555555
C4_Witness ==
    /\ called = "parse"
    /\ response = <<53, 46, 53, 53, 53, 53, 53, 53>>
    /\ parsed.bytes = response
    /\ parsed.value = <<5555555, 6>>

\* the decoded text holds no numeric substring: [-+]?\d*\.?\d+ matches
\* exactly when the text has a digit
NoNumber(t) == \A k \in 1..Len(t) : t[k] \notin Digits

\* C5 as claimed: in every failure case (the bytes cannot be decoded, or the
\* decoded text holds no numeric substring, the empty response included)
\* parse_value returns -1.0 and logs a diagnostic.
C5_FailureReturnsSentinelAndLogs ==
    (called = "parse" /\ (~Decodable(parsed.bytes) \/ NoNumber(parsed.text))) =>
        /\ parsed.value = Sentinel
        /\ parsed.logged

-----------------------------------------------------------------------------
(* Claims about the driver *)

\* thread t's call has returned (not raised) after reading a line
ReadDone(t) == pc[t] = "done" /\ Len(ev[t]) = 5 /\ ev[t][5] = "readline"

\* C6: get_output_state returns True when the line read for OUTP? is the wire
\* value "0", False when it is "1", and False when the read yields no data.
C6_OutputStateInverted ==
    \A t \in Threads :
        (ReadDone(t) /\ cur[t] = "get_output_state") =>
            /\ resp[t] \in {<<48>>, <<48, 10>>} => ret[t] = [tag |-> "bool", val |-> TRUE]
            /\ resp[t] \in {<<49>>, <<49, 10>>} => ret[t] = [tag |-> "bool", val |-> FALSE]
            /\ resp[t] = <<>> => ret[t] = [tag |-> "bool", val |-> FALSE]

C6_Witness ==
    /\ ReadDone("main")
    /\ cur["main"] = "get_output_state"
    /\ resp["main"] = <<48, 10>>
    /\ ret["main"] = [tag |-> "bool", val |-> TRUE]

\* C7: a _write, _query or _fquery issued while the connection is not open
\* ends at once with the not-open RuntimeError: no link event, the input
\* buffer and the device untouched.
C7_NotOpenRaises ==
    [][\A t \in Threads :
          (pc[t] = "enter" /\ ser # "open" /\ pc'[t] # "enter") =>
              /\ pc'[t] = "done"
              /\ ret'[t] = [tag |-> "raise", val |-> "RuntimeError"]
              /\ ev'[t] = <<>>
              /\ inbuf' = inbuf
              /\ outp' = outp
              /\ UNCHANGED <<ser, closes>>]_vars

C7_Witness ==
    /\ pc["main"] = "done"
    /\ cur["main"] = "turnon_output"
    /\ ser = "closed"
    /\ ret["main"] = [tag |-> "raise", val |-> "RuntimeError"]
    /\ ev["main"] = <<>>

\* C8: close() always leaves the connection not open; the handle is closed
\* at most once, so a close() on a closed connection (a second close(), the
\* one of __del__) and a close() after a failed open change nothing.
C8_CloseIdempotent ==
    /\ [](closes <= 1 /\ (ser = "open" => closes = 0) /\ (ser = "closed" => closes = 1))
    /\ [][(ScriptClose \/ ScriptDel \/ ScriptDelUnbuilt) =>
             /\ ser' # "open"
             /\ ser # "open" => (ser' = ser /\ closes' = closes)]_vars

\* the port was closed by close(), a call then raised not-open, and the
\* object was dropped, so that its __del__ ran close() again
C8_Witness ==
    /\ ser = "closed"
    /\ closes = 1
    /\ device = "None"
    /\ pc["main"] = "idle"
    /\ ret["main"] = [tag |-> "raise", val |-> "RuntimeError"]

\* the link statements of the helpers, in their order
LinkOrder(kind) ==
    IF kind = "_write" THEN <<"reset_input_buffer", "write", "flush", "sleep">>
    ELSE <<"reset_input_buffer", "write", "flush", "sleep", "readline">>

IsPrefix(a, b) == Len(a) <= Len(b) /\ a = SubSeq(b, 1, Len(a))

\* C9: the link events of every call are, in this order, clear input buffer,
\* transmit, flush, settle delay and, for _query and _fquery only, read one
\* line; a call that returns has performed all of them.
C9_LinkOrder ==
    \A t \in Threads :
        /\ IsPrefix(ev[t], LinkOrder(Kind(cur[t])))
        /\ (pc[t] = "done" /\ ret[t].tag # "raise") => ev[t] = LinkOrder(Kind(cur[t]))

C9_Witness ==
    /\ pc["main"] = "done"
    /\ cur["main"] = "set_voltage"
    /\ ret["main"] = PyNone
    /\ ev["main"] = <<"reset_input_buffer", "write", "flush", "sleep">>

-----------------------------------------------------------------------------
(* Claims about the GUI's use of the driver *)

\* thread t has transmitted the command of a query and not yet read the answer
InExchange(t) == Kind(cur[t]) # "_write" /\ pc[t] \in {"flush", "sleep", "read"}

\* C10 as claimed: the driver calls of the main thread's callbacks and of a
\* monitor thread are serialized: no driver call of the one begins while a
\* call of the other is between its transmit and its read.
C10_CallsSerialized ==
    [][\A u \in Threads :
          (pc[u] # "enter" /\ pc'[u] = "enter") =>
              \A t \in Threads \ {u} :
                  (t = "main" \/ u = "main") => ~InExchange(t)]_vars

\* C13: against a device that takes each OUTP command and answers OUTP? with
\* the wire value of its switch, get_output_state returns True when the last
\* of the turnon_output / turnoff_output calls made was turnon_output, and
\* False when it was turnoff_output.
C13_StateFollowsLastCall ==
    (ReadDone("main") /\ cur["main"] = "get_output_state" /\ last # "none") =>
        ret["main"] = [tag |-> "bool", val |-> last = "turnon_output"]

\* turnoff_output() returned last, and get_output_state() gave False
C13_Witness ==
    /\ ReadDone("main")
    /\ cur["main"] = "get_output_state"
    /\ last = "turnoff_output"
    /\ outp = 1
    /\ resp["main"] = Line1
    /\ ret["main"] = [tag |-> "bool", val |-> FALSE]

-----------------------------------------------------------------------------
(* Claims about the getters *)

\* how many times link event e is in the events es of a call
Count(es, e) == Cardinality({k \in 1..Len(es) : es[k] = e})

Getters == QueryMethods \cup FQueryMethods

\* thread t's call found the connection open: it got past the guard of its
\* helper
PastGuard(t) == pc[t] = "done" /\ ret[t] # Raise("RuntimeError")

\* C11: every call of a getter on an open connection transmits its command
\* exactly once and reads exactly one line, whatever comes back (each call
\* starts with no event, so nothing is served from an earlier call); a read
\* that times out or cannot be decoded makes _query hand back None and
\* _fquery -1.0, and the getter does not raise.
C11_OneTransmitOneRead ==
    \A t \in Threads :
        (PastGuard(t) /\ cur[t] \in Getters) =>
            /\ Count(ev[t], "write") = 1
            /\ Count(ev[t], "readline") = 1
            /\ (resp[t] = <<>> \/ ~Decodable(resp[t])) =>
                  /\ ret[t].tag # "raise"
                  /\ cur[t] \in {"get_idn", "get_version"} => ret[t] = PyNone
                  /\ Kind(cur[t]) = "_fquery" =>
                         ret[t] = [tag |-> "float", val |-> Sentinel]

\* get_idn() read a line that is no UTF-8 and returned None
C11_Witness ==
    /\ PastGuard("main")
    /\ cur["main"] = "get_idn"
    /\ resp["main"] = LineBad
    /\ ev["main"] = LinkOrder("_query")
    /\ ret["main"] = PyNone

\* C12 as claimed: whatever line the device answers OUTP? with on an open
\* connection (a blank line, text that is no integer and an integer other
\* than 0 and 1 included), get_output_state returns a boolean: it does not
\* raise and does not hand back the wire value.
C12_AlwaysBoolean ==
    \A t \in Threads :
        (ReadDone(t) /\ cur[t] = "get_output_state") => ret[t].tag = "bool"

\* monitor thread t is in an iteration of its loop: it found self.monitoring
\* set and is calling the driver
Polling(t) == pc[t] \notin {"idle", "loop", "pause"}

\* C14 as claimed: whatever the order of start_monitoring, stop_monitoring,
\* connect / disconnect and shutdown, at most one monitor loop thread is
\* alive and polling the device: stopping and restarting during the sleep of
\* the previous loop does not leave two loops running.
C14_OneMonitorLoop ==
    Cardinality({t \in MonThreads : Polling(t)}) <= 1

-----------------------------------------------------------------------------
(* Claims about the sample buffers *)

\* the three buffers hold, place by place, the samples put in
Aligned ==
    /\ Len(times) = Len(rows)
    /\ Len(volts) = Len(rows)
    /\ Len(currs) = Len(rows)
    /\ \A k \in 1..Len(rows) :
          /\ times[k] = rows[k].ts
          /\ volts[k] = rows[k].v
          /\ currs[k] = rows[k].c

\* no sample kept is more than time_window older than the newest one
InWindow == \A j, k \in 1..Len(times) : times[j] - times[k] <= time_window

\* update_plot has taken its snapshot
SnapshotTaken == pc["main"] = "draw"

\* C15 as claimed: whenever data_lock is not held the buffers times, volts
\* and currs have the same length and hold at each place the time, voltage
\* and current of one sample, and (each iteration pruning before it lets go
\* of the lock) no sample kept is more than 30 minutes older than the newest;
\* the snapshot of update_plot is three lists of the same length.
C15_BuffersConsistent ==
    /\ data_lock = "free" => (Aligned /\ InWindow)
    /\ SnapshotTaken =>
          /\ Len(snapshot.t) = Len(snapshot.v)
          /\ Len(snapshot.v) = Len(snapshot.c)

====
